---- MODULE Spec2Model ----
(***************************************************************************)
(* HttpClient (src/src/http-client.ts) and HttpError                       *)
(* (src/src/http-error.ts) as a state machine.                             *)
(*                                                                         *)
(* The state is the client's base URL and default header collection, the   *)
(* promise chain of every call made so far (fetch -> .then status check    *)
(* -> .catch wrap                                                          *)
(* -> json's .then body parse), and a record of the request/json call the  *)
(* latest step made (the headers it found, what it handed to fetch, the    *)
(* headers it left behind, what it threw).                                 *)
(*                                                                         *)
(* Spec follows the promise chains to their settlement.  SpecConfig        *)
(* exercises the header collection, authorize / unauthorize and            *)
(* makeRequestInit with every argument, and SpecUrl the base URL and       *)
(* urlTo next to authorize and makeRequestInit; both dispatch calls        *)
(* without following them to settlement.  SpecVerbs makes every call       *)
(* through the per-verb shorthands.                                        *)
(*                                                                         *)
(* An optional JavaScript value (null / undefined / a missing property) is *)
(* a sequence of length at most one: <<>> is "absent", <<v>> is v.         *)
(***************************************************************************)
EXTENDS Integers, Sequences, FiniteSets, Bags, TLC

\* Number of request/json calls made in one behaviour.
MaxCalls == 2

----------------------------------------------------------------------------
(* Values *)

\* Header names are case-insensitive: Headers normalises them to lower case.
UserNames == {"Accept", "accept", "Content-Type", "content-type"}

\* Names under which a caller may also reach the Authorization header.
AuthNames == {"Authorization", "AUTHORIZATION"}

LowerCase(name) ==
    CASE name = "Accept"        -> "accept"
      [] name = "Content-Type"  -> "content-type"
      [] name = "Authorization" -> "authorization"
      [] name = "AUTHORIZATION" -> "authorization"
      [] OTHER                  -> name

HeaderKeys == {LowerCase(n) : n \in UserNames \cup AuthNames}

\* Values a caller stores in client.headers; "" is a legal header value.
UserValues == {"", "text/html"}

\* Request bodies: absent, a plain object, a FormData, and an object
\* JSON.stringify cannot serialise (a cycle): text is its JSON text if any.
Undefined    == [type |-> "undefined", text |-> <<>>]
PlainObject  == [type |-> "object", text |-> <<"{\"a\":1}">>]
FormDataBody == [type |-> "FormData", text |-> <<>>]
CyclicObject == [type |-> "object", text |-> <<>>]
Bodies == {Undefined, PlainObject, FormDataBody, CyclicObject}

\* HttpMethod.
Methods == {"GET", "POST", "PATCH", "PUT", "DELETE"}

\* RequestExtension values: maps of RequestInit fields other than headers,
\* method and body (an absent argument spreads like the empty map).
NoOptions == [k \in {} |-> ""]
OptionMaps == {NoOptions, [mode |-> "cors"], [credentials |-> "omit", redirect |-> "follow"]}

\* Request urls and values written to baseUrl.
Urls == {"", "test", "/test", "//test", "http://x/test", "https://x/test", "httpx"}
BaseUrls == {"", "/", "https://example.com", "https://example.com/", "https://example.com//"}

\* Authorization schemes and credentials.
Schemes == {"Bearer", "Basic"}
Credentials == {"tok"}

\* Responses the transport can resolve with: status and whether the body
\* is JSON text (response.json() fulfils) or not (it rejects).
Statuses == {199, 200, 399, 400}
Response(s, p) == [type |-> "Response", status |-> s, parses |-> p]
Responses == {Response(199, TRUE), Response(200, TRUE), Response(399, FALSE),
              Response(400, TRUE)}

\* An Error object: its name tag and the two optional HttpError fields.
Error(name, message) ==
    [type |-> "Error", name |-> name, message |-> message, parent |-> <<>>, response |-> <<>>]
NullValue == [type |-> "null"]

\* Values the transport can reject with: an ordinary error, an error whose
\* name tag is 'HttpError' but that this client never built, and null
\* (fetch rejects with the abort reason, and abort(null) is allowed).
NetworkError == Error("TypeError", "Failed to fetch")
ForeignHttpError == Error("HttpError", "foreign")
Rejections == {NetworkError, ForeignHttpError, NullValue}

Fulfilled(v) == [state |-> "fulfilled", value |-> v]
Rejected(v)  == [state |-> "rejected", value |-> v]

TransportOutcomes == {Fulfilled(r) : r \in Responses} \cup {Rejected(e) : e \in Rejections}

----------------------------------------------------------------------------
(* HttpError *)

\* HttpError.name, the name of the class (a function's own name property).
HttpErrorClassName == "HttpError"

\* new HttpError(): the instance field name = 'HttpError', no parent, no response.
NewHttpError == Error("HttpError", "")

fromErrorAsResponse(error) == [NewHttpError EXCEPT !.response = <<error>>]

fromError(error) == [NewHttpError EXCEPT !.parent = <<error>>]

fromResponse(response) == [NewHttpError EXCEPT !.response = <<response>>]

\* error.name === HttpError.name; reading .name of null throws a TypeError,
\* which the callers below handle before they use this.
isHttpErrorByPayload(error) ==
    /\ "parent" \in DOMAIN error
    /\ error.parent # <<>> \/ error.response # <<>>

isHttpError(error) == "name" \in DOMAIN error /\ error.name = HttpErrorClassName

----------------------------------------------------------------------------
(* The header collection (the platform's Headers) *)

EmptyHeaders == [k \in HeaderKeys |-> <<>>]

HeadersGet(h, name) == h[LowerCase(name)]

HeadersHas(h, name) == h[LowerCase(name)] # <<>>

HeadersSet(h, name, value) == [h EXCEPT ![LowerCase(name)] = <<value>>]

HeadersDelete(h, name) == [h EXCEPT ![LowerCase(name)] = <<>>]

\* JavaScript truthiness of what Headers.get returns: null and "" are falsy.
Truthy(opt) == opt # <<>> /\ opt[1] # ""

\* Headers.append: a second value for a name is joined to the first.
HeadersAppend(h, name, value) ==
    IF HeadersHas(h, name)
    THEN HeadersSet(h, name, HeadersGet(h, name)[1] \o ", " \o value)
    ELSE HeadersSet(h, name, value)

----------------------------------------------------------------------------
(* Strings *)

StartsWith(s, prefix) ==
    Len(s) >= Len(prefix) /\ SubSeq(s, 1, Len(prefix)) = prefix

EndsWith(s, suffix) ==
    Len(s) >= Len(suffix) /\ SubSeq(s, Len(s) - Len(suffix) + 1, Len(s)) = suffix

\* s.substring(n): s without its first n characters.
Substring(s, n) == SubSeq(s, n + 1, Len(s))

\* s.slice(0, -1): s without its last character.
SliceOffLast(s) == SubSeq(s, 1, Len(s) - 1)

----------------------------------------------------------------------------
(* HttpClient: authorization and the base URL *)

\* authorize(type, credentials)
authorizeAppend(h, type, credentials) ==
    HeadersAppend(h, "Authorization", type \o " " \o credentials)

authorize(h, type, credentials) ==
    HeadersSet(h, "Authorization", type \o " " \o credentials)

\* unauthorize()
unauthorize(h) == HeadersDelete(h, "Authorization")

\* set baseUrl(url): the value stored.
setBaseUrlStripAll(url) ==
    IF EndsWith(url, "//") THEN SliceOffLast(SliceOffLast(url))
    ELSE IF EndsWith(url, "/") THEN SliceOffLast(url) ELSE url

setBaseUrl(url) == IF EndsWith(url, "/") THEN SliceOffLast(url) ELSE url

\* urlTo(url), given the stored base URL.
urlToAlwaysPrefix(base, url) ==
    IF base = ""
    THEN url
    ELSE base \o "/" \o (IF StartsWith(url, "/") THEN Substring(url, 1) ELSE url)

urlToKeepSlash(base, url) ==
    IF base = ""
    THEN url
    ELSE IF StartsWith(url, "http://") \/ StartsWith(url, "https://")
         THEN url
         ELSE base \o "/" \o url

urlTo(base, url) ==
    IF base = ""
    THEN url
    ELSE IF StartsWith(url, "http://") \/ StartsWith(url, "https://")
         THEN url
         ELSE base \o "/" \o (IF StartsWith(url, "/") THEN Substring(url, 1) ELSE url)

----------------------------------------------------------------------------
(* HttpClient: the synchronous part of request and json *)

IsFormData(body) == body.type = "FormData"

\* JSON.stringify(body) throws a TypeError for a value it cannot serialise.
StringifyThrows(body) == body.type = "object" /\ body.text = <<>>

JSONStringify(body) == [type |-> "string", text |-> body.text]

\* { headers: this.headers, method: method, ...request }: an object is a
\* function from its field names; the spread fields come last.
Spread(request, h, method) == request @@ [headers |-> h, method |-> method]

WithBody(init, value) == [body |-> value] @@ init

\* makeRequestInit: the object literal, then the body by its three cases.
\* threw is set when JSON.stringify throws; value is the object returned.
makeRequestInitStringifyAll(h, method, body, request) ==
    LET init == Spread(request, h, method) IN
    IF body.type = "undefined"
    THEN [threw |-> FALSE, value |-> init]
    ELSE IF StringifyThrows(body)
         THEN [threw |-> TRUE, value |-> init]
         ELSE [threw |-> FALSE, value |-> WithBody(init, JSONStringify(body))]

makeRequestInitNoSpread(h, method, body, request) ==
    LET init == Spread(NoOptions, h, method) IN
    IF body.type = "undefined"
    THEN [threw |-> FALSE, value |-> init]
    ELSE IF IsFormData(body)
         THEN [threw |-> FALSE, value |-> WithBody(init, body)]
         ELSE IF StringifyThrows(body)
              THEN [threw |-> TRUE, value |-> init]
              ELSE [threw |-> FALSE, value |-> WithBody(init, JSONStringify(body))]

makeRequestInit(h, method, body, request) ==
    LET init == Spread(request, h, method) IN
    IF body.type = "undefined"
    THEN [threw |-> FALSE, value |-> init]
    ELSE IF IsFormData(body)
         THEN [threw |-> FALSE, value |-> WithBody(init, body)]
         ELSE IF StringifyThrows(body)
              THEN [threw |-> TRUE, value |-> init]
              ELSE [threw |-> FALSE, value |-> WithBody(init, JSONStringify(body))]

\* request, line 20: the calls of the transport one request call makes.
InvocationsNone(target, init) == <<>>

InvocationsTwice(target, init) ==
    <<[url |-> target, init |-> init], [url |-> target, init |-> init]>>

Invocations(target, init) == <<[url |-> target, init |-> init]>>

\* The error JSON.stringify throws, and the one reading .name of null throws.
StringifyError == Error("TypeError", "Converting circular structure to JSON")
NullReadError == Error("TypeError", "Cannot read properties of null")

\* json, lines 49-50: the temporary Accept / Content-Type.
JsonContentTypeAlwaysJson(body) == "application/json"

JsonContentType(body) ==
    IF IsFormData(body) THEN "multipart/form-data" ELSE "application/json"

JsonSetHeadersFresh(h, body) ==
    HeadersSet(HeadersSet(EmptyHeaders, "Accept", "application/json"),
               "Content-Type", JsonContentType(body))

JsonSetHeaders(h, body) ==
    HeadersSet(HeadersSet(h, "Accept", "application/json"),
               "Content-Type", JsonContentType(body))

\* json, lines 54-64: put one saved header back, or delete it.
RestoreHeader(h, name, old) ==
    IF Truthy(old) THEN HeadersSet(h, name, old[1]) ELSE HeadersDelete(h, name)

JsonRestoreNothing(h, oldAccept, oldContentType) == h

JsonRestoreHeaders(h, oldAccept, oldContentType) ==
    RestoreHeader(RestoreHeader(h, "Accept", oldAccept), "Content-Type", oldContentType)

----------------------------------------------------------------------------
(* HttpClient: the callbacks of the promise chain *)

\* request, lines 21-27: the status check.  A rejected fetch skips it.
StatusOkAbove200(status) == status > 200 /\ status < 400
StatusOkUpTo400(status) == status >= 200 /\ status <= 400

StatusOk(status) == status >= 200 /\ status < 400

StatusCheck(s) ==
    IF s.state = "fulfilled"
    THEN IF StatusOk(s.value.status)
         THEN Fulfilled(s.value)
         ELSE Rejected(fromResponse(s.value))
    ELSE s

\* request, lines 28-34: the catch boundary.  A fulfilled promise skips it.
CatchBoundary(s) ==
    IF s.state = "rejected"
    THEN IF s.value = NullValue
         THEN Rejected(NullReadError)
         ELSE IF isHttpError(s.value)
              THEN Rejected(s.value)
              ELSE Rejected(fromError(s.value))
    ELSE s

\* json, line 66: response.json().  A rejected request skips it.
SyntaxError == Error("SyntaxError", "Unexpected token")
ParsedJson(response) == [type |-> "json", of |-> response]

ParseBody(s) ==
    IF s.state = "fulfilled"
    THEN IF s.value.parses
         THEN Fulfilled(ParsedJson(s.value))
         ELSE Rejected(SyntaxError)
    ELSE s

----------------------------------------------------------------------------
(* State *)

VARIABLES
    baseUrl,    \* client._baseUrl
    headers,    \* client.headers
    calls,      \* bag of the promise chains of the calls made
    last        \* the call the latest step made, if it made one

vars == <<baseUrl, headers, calls, last>>

\* A call's chain: pc is the callback that runs next; fetched, afterThen,
\* req and out are the settlements of fetch's promise, of .then's, of the
\* promise request returns and of the promise the caller holds.  restored
\* tells that json had put its temporary headers back when it returned;
\* fetches counts the calls of the transport made for this call.
NewCall(kind, restored, fetches) ==
    [kind |-> kind, pc |-> "fetch", fetched |-> <<>>, afterThen |-> <<>>,
     req |-> <<>>, out |-> <<>>, restored |-> restored, fetches |-> fetches]

NoCall == [kind |-> "none"]

\* A request or json call.  args: url, method and options (body apart);
\* pre / post: the headers when the call began and when it ended; sent:
\* the calls of the transport it made; target and init: the url and the
\* options of each of them; thrown: what the call threw synchronously, if
\* it did.
CallArgs(url, method, request) == [url |-> url, method |-> method, request |-> request]

CallRecord(kind, args, body, pre, post, sent, thrown) ==
    [kind |-> kind, args |-> args, body |-> body, pre |-> pre, post |-> post,
     target |-> [i \in 1..Len(sent) |-> sent[i].url],
     init |-> [i \in 1..Len(sent) |-> sent[i].init],
     thrown |-> thrown]

Replace(c, d) == (calls (-) SetToBag({c})) (+) SetToBag({d})

Init ==
    /\ baseUrl = ""
    /\ headers = EmptyHeaders
    /\ calls = EmptyBag
    /\ last = NoCall

----------------------------------------------------------------------------
(* Actions *)

\* client.headers.set(name, value)
SetHeader(name, value) ==
    /\ headers' = HeadersSet(headers, name, value)
    /\ last' = NoCall
    /\ UNCHANGED <<baseUrl, calls>>

\* client.headers.delete(name)
DeleteHeader(name) ==
    /\ HeadersHas(headers, name)
    /\ headers' = HeadersDelete(headers, name)
    /\ last' = NoCall
    /\ UNCHANGED <<baseUrl, calls>>

\* client.request(url, method, body, request): builds the target and the
\* init and calls fetch.
Request(url, method, body, request) ==
    /\ BagCardinality(calls) < MaxCalls
    /\ LET args == CallArgs(url, method, request)
           init == makeRequestInit(headers, method, body, request)
           sent == Invocations(urlTo(baseUrl, url), init.value)
       IN
       IF init.threw
       THEN /\ last' = CallRecord("request", args, body, headers, headers, <<>>,
                                  <<StringifyError>>)
            /\ UNCHANGED <<baseUrl, headers, calls>>
       ELSE /\ calls' = calls (+) SetToBag({NewCall("request", TRUE, Len(sent))})
            /\ last' = CallRecord("request", args, body, headers, headers, sent, <<>>)
            /\ UNCHANGED <<baseUrl, headers>>

\* client.json(url, method, body, request): save, set, request, restore,
\* return.
Json(url, method, body, request) ==
    /\ BagCardinality(calls) < MaxCalls
    /\ LET args == CallArgs(url, method, request)
           oldAccept      == HeadersGet(headers, "Accept")
           oldContentType == HeadersGet(headers, "Content-Type")
           temp == JsonSetHeaders(headers, body)
           init == makeRequestInit(temp, method, body, request)
           sent == Invocations(urlTo(baseUrl, url), init.value)
           post == JsonRestoreHeaders(temp, oldAccept, oldContentType)
       IN
       IF init.threw
       THEN /\ headers' = temp
            /\ last' = CallRecord("json", args, body, headers, temp, <<>>,
                                  <<StringifyError>>)
            /\ UNCHANGED <<baseUrl, calls>>
       ELSE /\ headers' = post
            /\ calls' = calls (+) SetToBag({NewCall("json", post # temp \/ headers = temp,
                                                     Len(sent))})
            /\ last' = CallRecord("json", args, body, headers, post, sent, <<>>)
            /\ UNCHANGED baseUrl

\* The transport settles the promise fetch returned.
FetchSettle(c, outcome) ==
    /\ c.pc = "fetch"
    /\ calls' = Replace(c, [c EXCEPT !.pc = "then", !.fetched = <<outcome>>])
    /\ last' = NoCall
    /\ UNCHANGED <<baseUrl, headers>>

\* request's .then callback.
RequestThen(c) ==
    /\ c.pc = "then"
    /\ calls' = Replace(c, [c EXCEPT !.pc = "catch",
                                      !.afterThen = <<StatusCheck(c.fetched[1])>>])
    /\ last' = NoCall
    /\ UNCHANGED <<baseUrl, headers>>

\* request's .catch callback; it settles the promise request returned.
RequestCatchDropsAccept(c) ==
    /\ c.pc = "catch"
    /\ LET r == CatchBoundary(c.afterThen[1]) IN
       calls' = Replace(c, [c EXCEPT !.pc = IF c.kind = "json" THEN "json" ELSE "done",
                                     !.req = <<r>>,
                                     !.out = IF c.kind = "json" THEN <<>> ELSE <<r>>])
    /\ last' = NoCall
    /\ headers' = HeadersDelete(headers, "Accept")
    /\ UNCHANGED baseUrl

RequestCatch(c) ==
    /\ c.pc = "catch"
    /\ LET r == CatchBoundary(c.afterThen[1]) IN
       calls' = Replace(c, [c EXCEPT !.pc = IF c.kind = "json" THEN "json" ELSE "done",
                                     !.req = <<r>>,
                                     !.out = IF c.kind = "json" THEN <<>> ELSE <<r>>])
    /\ last' = NoCall
    /\ UNCHANGED <<baseUrl, headers>>

\* json's .then callback; it settles the promise json returned.
JsonThen(c) ==
    /\ c.pc = "json"
    /\ calls' = Replace(c, [c EXCEPT !.pc = "done", !.out = <<ParseBody(c.req[1])>>])
    /\ last' = NoCall
    /\ UNCHANGED <<baseUrl, headers>>

Next ==
    \/ \E n \in UserNames, v \in UserValues : SetHeader(n, v)
    \/ \E n \in UserNames : DeleteHeader(n)
    \/ \E b \in Bodies : Request("/test", "POST", b, NoOptions)
    \/ \E b \in Bodies : Json("/test", "POST", b, NoOptions)
    \/ \E c \in BagToSet(calls), o \in TransportOutcomes : FetchSettle(c, o)
    \/ \E c \in BagToSet(calls) : RequestThen(c)
    \/ \E c \in BagToSet(calls) : RequestCatch(c)
    \/ \E c \in BagToSet(calls) : JsonThen(c)

Spec == Init /\ [][Next]_vars

----------------------------------------------------------------------------
(* Headers, base URL and dispatch: every argument, no settlement *)

\* client.authorize(type, credentials)
Authorize(type, credentials) ==
    /\ headers' = authorize(headers, type, credentials)
    /\ last' = [kind |-> "authorize", type |-> type, credentials |-> credentials,
                pre |-> headers]
    /\ UNCHANGED <<baseUrl, calls>>

\* client.unauthorize()
Unauthorize ==
    /\ headers' = unauthorize(headers)
    /\ last' = [kind |-> "unauthorize", pre |-> headers]
    /\ UNCHANGED <<baseUrl, calls>>

\* client.baseUrl = url
SetBaseUrl(url) ==
    /\ baseUrl' = setBaseUrl(url)
    /\ last' = [kind |-> "setBaseUrl", url |-> url]
    /\ UNCHANGED <<headers, calls>>

\* client.baseUrl
GetBaseUrl ==
    /\ last' = [kind |-> "getBaseUrl", result |-> baseUrl]
    /\ UNCHANGED <<baseUrl, headers, calls>>

\* client.urlTo(url)
UrlTo(url) ==
    /\ last' = [kind |-> "urlTo", url |-> url, result |-> urlTo(baseUrl, url)]
    /\ UNCHANGED <<baseUrl, headers, calls>>

\* client.makeRequestInit(method, body, request)
MakeRequestInitSetsContentType(method, body, request) ==
    /\ LET init == makeRequestInit(headers, method, body, request) IN
       last' = [kind |-> "makeRequestInit", method |-> method, body |-> body,
                request |-> request, pre |-> headers,
                result |-> IF init.threw THEN <<>> ELSE <<init.value>>,
                thrown |-> IF init.threw THEN <<StringifyError>> ELSE <<>>]
    /\ headers' = IF body.type = "undefined"
                  THEN headers
                  ELSE HeadersSet(headers, "Content-Type", JsonContentType(body))
    /\ UNCHANGED <<baseUrl, calls>>

MakeRequestInit(method, body, request) ==
    /\ LET init == makeRequestInit(headers, method, body, request) IN
       last' = [kind |-> "makeRequestInit", method |-> method, body |-> body,
                request |-> request, pre |-> headers,
                result |-> IF init.threw THEN <<>> ELSE <<init.value>>,
                thrown |-> IF init.threw THEN <<StringifyError>> ELSE <<>>]
    /\ UNCHANGED <<baseUrl, headers, calls>>

NextConfig ==
    \/ \E n \in UserNames \cup AuthNames, v \in UserValues : SetHeader(n, v)
    \/ \E n \in UserNames \cup AuthNames : DeleteHeader(n)
    \/ \E t \in Schemes, c \in Credentials : Authorize(t, c)
    \/ Unauthorize
    \/ \E m \in Methods, b \in Bodies, r \in OptionMaps : MakeRequestInit(m, b, r)
    \/ \E m \in Methods, b \in Bodies : Request("test", m, b, NoOptions)
    \/ \E m \in Methods, b \in Bodies : Json("test", m, b, NoOptions)

SpecConfig == Init /\ [][NextConfig]_vars

NextUrl ==
    \/ \E u \in BaseUrls : SetBaseUrl(u)
    \/ GetBaseUrl
    \/ \E u \in Urls : UrlTo(u)
    \/ \E t \in Schemes, c \in Credentials : Authorize(t, c)
    \/ Unauthorize
    \/ \E m \in Methods, b \in Bodies, r \in OptionMaps : MakeRequestInit(m, b, r)
    \/ \E u \in Urls : Request(u, "GET", Undefined, NoOptions)
    \/ \E u \in Urls : Json(u, "GET", Undefined, NoOptions)

SpecUrl == Init /\ [][NextUrl]_vars

----------------------------------------------------------------------------
(* The per-verb shorthands *)

\* The call a shorthand makes: which method of the client, and its four
\* arguments.
Call(callee, url, method, body, request) ==
    [callee |-> callee, url |-> url, method |-> method, body |-> body,
     request |-> request]

deleteAsGet(url, request) == Call("request", url, "GET", Undefined, request)

get(url, request) == Call("request", url, "GET", Undefined, request)
post(url, body, request) == Call("request", url, "POST", body, request)
patch(url, body, request) == Call("request", url, "PATCH", body, request)
put(url, body, request) == Call("request", url, "PUT", body, request)
delete(url, request) == Call("request", url, "DELETE", Undefined, request)

putJsonNoBody(url, body, request) == Call("json", url, "PUT", Undefined, request)

getJson(url, request) == Call("json", url, "GET", Undefined, request)
postJson(url, body, request) == Call("json", url, "POST", body, request)
patchJson(url, body, request) == Call("json", url, "PATCH", body, request)
putJson(url, body, request) == Call("json", url, "PUT", body, request)
deleteJson(url, request) == Call("json", url, "DELETE", Undefined, request)

\* return this.request(...) / return this.json(...): the shorthand's step is
\* the step of the call it makes, and its result that call's result.
Delegate(d) ==
    IF d.callee = "request"
    THEN Request(d.url, d.method, d.body, d.request)
    ELSE Json(d.url, d.method, d.body, d.request)

Get(url, request) == Delegate(get(url, request))
Post(url, body, request) == Delegate(post(url, body, request))
Patch(url, body, request) == Delegate(patch(url, body, request))
Put(url, body, request) == Delegate(put(url, body, request))
Delete(url, request) == Delegate(delete(url, request))

GetJson(url, request) == Delegate(getJson(url, request))
PostJson(url, body, request) == Delegate(postJson(url, body, request))
PatchJson(url, body, request) == Delegate(patchJson(url, body, request))
PutJson(url, body, request) == Delegate(putJson(url, body, request))
DeleteJson(url, request) == Delegate(deleteJson(url, request))

\* Urls and options the shorthands are called with.
ShorthandUrls == {"https://example.com"}
ShorthandOptions == {NoOptions, [mode |-> "cors"]}

NextVerbs ==
    \/ \E u \in ShorthandUrls, r \in ShorthandOptions : Get(u, r)
    \/ \E u \in ShorthandUrls, b \in Bodies, r \in ShorthandOptions : Post(u, b, r)
    \/ \E u \in ShorthandUrls, b \in Bodies, r \in ShorthandOptions : Patch(u, b, r)
    \/ \E u \in ShorthandUrls, b \in Bodies, r \in ShorthandOptions : Put(u, b, r)
    \/ \E u \in ShorthandUrls, r \in ShorthandOptions : Delete(u, r)
    \/ \E u \in ShorthandUrls, r \in ShorthandOptions : GetJson(u, r)
    \/ \E u \in ShorthandUrls, b \in Bodies, r \in ShorthandOptions : PostJson(u, b, r)
    \/ \E u \in ShorthandUrls, b \in Bodies, r \in ShorthandOptions : PatchJson(u, b, r)
    \/ \E u \in ShorthandUrls, b \in Bodies, r \in ShorthandOptions : PutJson(u, b, r)
    \/ \E u \in ShorthandUrls, r \in ShorthandOptions : DeleteJson(u, r)

SpecVerbs == Init /\ [][NextVerbs]_vars

----------------------------------------------------------------------------
(* Properties *)

Calls == BagToSet(calls)

\* The promise request returned has settled / is still pending.
RequestSettled(c) == c.req # <<>>
InFlight(c) == c.req = <<>>

Resolved(c) == c.fetched # <<>> /\ c.fetched[1].state = "fulfilled"
TransportRejected(c) == c.fetched # <<>> /\ c.fetched[1].state = "rejected"

\* The two headers json touches, as a pair.
JsonPair(h) == <<HeadersGet(h, "Accept"), HeadersGet(h, "Content-Type")>>

\* C1: whenever the transport resolved with a response whose status is in
\* [200,400), the promise request returned is fulfilled, and with that very
\* response.
C1_OkStatusResolves ==
    \A c \in Calls :
        (RequestSettled(c) /\ Resolved(c)
            /\ c.fetched[1].value.status >= 200 /\ c.fetched[1].value.status < 400)
        => c.req[1] = Fulfilled(c.fetched[1].value)

C1_Witness ==
    \E c \in Calls :
        /\ c.kind = "request" /\ RequestSettled(c) /\ Resolved(c)
        /\ c.fetched[1].value.status = 200
        /\ c.req[1].state = "fulfilled"

\* C2: whenever the transport resolved with a response whose status is below
\* 200 or at least 400, the promise request returned is rejected with an
\* HttpError whose response is that response and whose parent is unset.
C2_BadStatusRejects ==
    \A c \in Calls :
        (RequestSettled(c) /\ Resolved(c)
            /\ (c.fetched[1].value.status < 200 \/ c.fetched[1].value.status >= 400))
        => /\ c.req[1].state = "rejected"
           /\ c.req[1].value.name = "HttpError"
           /\ c.req[1].value.response = <<c.fetched[1].value>>
           /\ c.req[1].value.parent = <<>>

C2_Witness ==
    \E c \in Calls :
        /\ c.kind = "request" /\ RequestSettled(c) /\ Resolved(c)
        /\ c.fetched[1].value.status = 400
        /\ c.req[1].state = "rejected"

\* C3: whatever value e the transport rejected with, the promise request
\* returned is rejected with an HttpError whose parent is e and whose
\* response is unset.
C3_TransportRejectionWrapped ==
    \A c \in Calls :
        (RequestSettled(c) /\ TransportRejected(c))
        => /\ c.req[1].state = "rejected"
           /\ c.req[1].value.name = "HttpError"
           /\ c.req[1].value.parent = <<c.fetched[1].value>>
           /\ c.req[1].value.response = <<>>

\* C4: once json has returned, Accept and Content-Type are what they were
\* before the call, whatever they were.
C4_JsonRestoresHeaders ==
    (last.kind = "json" /\ last.thrown = <<>>)
    => JsonPair(last.post) = JsonPair(last.pre)

\* C5: however a json call ends, a failure while the request is being built
\* included, Accept and Content-Type end up with their values from before
\* the call.
C5_JsonRestoresOnEveryOutcome ==
    last.kind = "json" => JsonPair(last.post) = JsonPair(last.pre)

\* C6: the headers json hands to the transport have Accept application/json
\* and Content-Type multipart/form-data for a FormData body and
\* application/json for every other body.
C6_JsonDispatchHeaders ==
    (last.kind = "json" /\ last.init # <<>>)
    => /\ HeadersGet(last.init[1].headers, "Accept") = <<"application/json">>
       /\ HeadersGet(last.init[1].headers, "Content-Type") =
            IF last.body = FormDataBody
            THEN <<"multipart/form-data">>
            ELSE <<"application/json">>

C6_Witness ==
    /\ last.kind = "json" /\ last.init # <<>>
    /\ last.body = FormDataBody
    /\ HeadersGet(last.pre, "Content-Type") = <<"text/html">>

\* C7: a plain request made right after a json call has returned, that
\* call's transport request still pending, is dispatched with the headers
\* as they were before the json call.
C7_RequestAfterJsonUsesDefaults ==
    [][(/\ last.kind = "json" /\ last.thrown = <<>>
        /\ last'.kind = "request" /\ last'.init # <<>>)
       => last'.init[1].headers = last.pre]_vars

\* C8: no continuation of the promise json returned runs while that call's
\* temporary headers are in place: whenever that promise has settled, the
\* call had put the saved Accept and Content-Type back.
C8_RestoreBeforeOutcome ==
    \A c \in Calls : (c.kind = "json" /\ c.out # <<>>) => c.restored

C8_Witness ==
    \E c \in Calls, d \in Calls :
        /\ c.kind = "json" /\ c.out # <<>> /\ c.out[1].state = "fulfilled"
        /\ d.kind = "json" /\ d.out # <<>> /\ d.out[1].state = "rejected"

\* C9 as stated: json restores the headers only after the call's own request
\* has resolved.
C9_RestoreAfterOwnRequest ==
    \A c \in Calls : (c.kind = "json" /\ c.restored) => RequestSettled(c)

\* C9 amended: json restores the headers before it returns, ahead of the
\* settlement of its request, so every json call in flight has already put
\* its temporary headers back: json calls in flight together do not
\* interleave their header mutations.
C9_InFlightJsonRestored ==
    \A c \in Calls : (c.kind = "json" /\ InFlight(c)) => c.restored

C9_Witness ==
    /\ \E c \in Calls :
          /\ c.kind = "json" /\ c.pc = "fetch" /\ CopiesIn(c, calls) = 2
    /\ last.kind = "json" /\ last.thrown = <<>>
    /\ JsonPair(last.pre) = <<<<"text/html">>, <<"text/html">>>>
    /\ headers = last.pre

\* C10: every rejection of the promise json returned is an HttpError that
\* carries either a response or a parent.
C10_JsonFailuresNormalized ==
    \A c \in Calls :
        (c.kind = "json" /\ c.out # <<>> /\ c.out[1].state = "rejected")
        => /\ isHttpError(c.out[1].value)
           /\ (c.out[1].value.response # <<>>) # (c.out[1].value.parent # <<>>)

\* The HttpError objects built for a call: one by the status check when it
\* rejects a response, one by the catch boundary when it wraps what it caught.
HttpErrorsCreated(c) ==
    (IF c.afterThen # <<>> /\ Resolved(c) /\ c.afterThen[1].state = "rejected"
     THEN 1 ELSE 0)
    + (IF c.req # <<>> /\ c.req[1] # c.afterThen[1] /\ isHttpError(c.req[1].value)
       THEN 1 ELSE 0)

\* C11: a call to request or json never throws synchronously to its caller,
\* whatever the url, method, body and options: every failure is a rejection
\* of the promise it returns.
C11_NeverThrowsSynchronously ==
    last.kind \in {"request", "json"} => last.thrown = <<>>

\* C12: for every failed request exactly one HttpError is built, and the
\* one the status check threw reaches the caller as it is: the rejection of
\* the promise request returned is that of .then, with the response set and
\* the parent unset.
C12_NormalizedOnce ==
    \A c \in Calls :
        (RequestSettled(c) /\ c.req[1].state = "rejected")
        => /\ HttpErrorsCreated(c) = 1
           /\ Resolved(c) => /\ c.req[1] = c.afterThen[1]
                             /\ c.req[1].value = fromResponse(c.fetched[1].value)

\* C13: a call of request or json that reaches the transport invokes it
\* exactly once, and that stays so through every outcome (success, bad
\* status, transport rejection): nothing is sent a second time.
C13_TransportInvokedOnce ==
    /\ \A c \in Calls : c.fetches = 1
    /\ (last.kind \in {"request", "json"} /\ last.thrown = <<>>) => Len(last.init) = 1

C13_Witness ==
    \E c \in Calls, d \in Calls :
        /\ c.kind = "request" /\ c.pc = "done" /\ TransportRejected(c) /\ c.fetches = 1
        /\ d.kind = "json" /\ d.pc = "done" /\ Resolved(d)
        /\ d.fetched[1].value.status = 400 /\ d.fetches = 1

\* A url that names its own protocol.
HasProtocol(url) == StartsWith(url, "http://") \/ StartsWith(url, "https://")

\* C14: urlTo returns its argument unchanged, a leading slash included,
\* when no base URL is stored, and when the argument starts with http:// or
\* https:// whatever the base URL is.
C14_UrlToReturnsArgument ==
    (last.kind = "urlTo" /\ (baseUrl = "" \/ HasProtocol(last.url)))
    => last.result = last.url

C14_Witness ==
    /\ last.kind = "urlTo" /\ baseUrl = "https://example.com"
    /\ last.url = "https://x/test" /\ last.result = "https://x/test"

\* C15: with a base URL b stored and an argument without protocol, urlTo
\* returns b, a slash, and the argument less one leading slash if it has
\* one; so "test" and "/test" give the same result.
C15_UrlToPrefixes ==
    /\ (last.kind = "urlTo" /\ baseUrl # "" /\ ~HasProtocol(last.url))
       => last.result = IF StartsWith(last.url, "/")
                        THEN baseUrl \o last.url
                        ELSE baseUrl \o "/" \o last.url
    /\ baseUrl # "" => urlTo(baseUrl, "test") = urlTo(baseUrl, "/test")

C15_Witness ==
    /\ last.kind = "urlTo" /\ baseUrl = "https://example.com"
    /\ last.url = "//test" /\ last.result = "https://example.com//test"

\* C16: the base URL starts as ""; a written value that ends with a slash is
\* stored less exactly that one slash, any other value is stored as it is;
\* a read returns the stored value.
C16_BaseUrlStored ==
    /\ baseUrl = ""
    /\ [](/\ last.kind = "setBaseUrl"
             => IF EndsWith(last.url, "/")
                THEN baseUrl \o "/" = last.url
                ELSE baseUrl = last.url
          /\ last.kind = "getBaseUrl" => last.result = baseUrl)

C16_Witness ==
    /\ last.kind = "setBaseUrl" /\ last.url = "https://example.com//"
    /\ baseUrl = "https://example.com/"

\* Every header but Authorization is as it was before the step.
OthersKept(pre) ==
    \A k \in HeaderKeys \ {LowerCase("Authorization")} : headers[k] = pre[k]

\* C17: after authorize(type, credentials) the collection has the one
\* Authorization value "type credentials", whatever it held before, and
\* nothing else has changed; after unauthorize it has no Authorization, and
\* is unchanged altogether when it had none.
C17_AuthorizationEntry ==
    /\ last.kind = "authorize"
       => /\ HeadersGet(headers, "Authorization")
               = <<last.type \o " " \o last.credentials>>
          /\ OthersKept(last.pre)
    /\ last.kind = "unauthorize"
       => /\ ~HeadersHas(headers, "Authorization")
          /\ OthersKept(last.pre)
          /\ ~HeadersHas(last.pre, "Authorization") => headers = last.pre

C17_Witness ==
    /\ last.kind = "authorize" /\ last.type = "Basic"
    /\ HeadersGet(last.pre, "Authorization") = <<"Bearer tok">>
    /\ HeadersGet(headers, "Authorization") = <<"Basic tok">>

\* C18: the headers a request or json call hands to the transport are the
\* ones set and not deleted so far.  Only set, delete, authorize and
\* unauthorize are meant to change the collection, so this says: a call
\* dispatches the collection as it found it, and leaves it as it found it.
C18_DefaultHeadersPersist ==
    last.kind \in {"request", "json"}
    => /\ last.init # <<>> => last.init[1].headers = last.pre
       /\ last.post = last.pre

\* C19: makeRequestInit's body: no body field for an absent body, the very
\* FormData for a FormData body, the JSON text for any other body that has
\* one.
C19_BodyCases ==
    last.kind = "makeRequestInit"
    => /\ last.body = Undefined
          => /\ last.result # <<>>
             /\ "body" \notin DOMAIN last.result[1]
       /\ last.body = FormDataBody
          => /\ last.result # <<>>
             /\ last.result[1].body = FormDataBody
       /\ (last.body.type = "object" /\ last.body.text # <<>>)
          => /\ last.result # <<>>
             /\ last.result[1].body = [type |-> "string", text |-> last.body.text]

C19_Witness ==
    /\ last.kind = "makeRequestInit" /\ last.body = FormDataBody
    /\ last.result # <<>> /\ last.result[1].body = FormDataBody

\* C20: the object makeRequestInit returns has the method argument as its
\* method, the current header collection as its headers, every field of
\* the options with its value, and apart from the body nothing else.
C20_OptionsCopied ==
    (last.kind = "makeRequestInit" /\ last.result # <<>>)
    => LET init == last.result[1] IN
       /\ init.method = last.method
       /\ init.headers = headers
       /\ \A k \in DOMAIN last.request : k \in DOMAIN init /\ init[k] = last.request[k]
       /\ DOMAIN init \ {"body"} = {"headers", "method"} \cup DOMAIN last.request

C20_Witness ==
    /\ last.kind = "makeRequestInit" /\ last.result # <<>>
    /\ last.method = "PATCH" /\ last.body = PlainObject
    /\ last.request = [credentials |-> "omit", redirect |-> "follow"]
    /\ HeadersGet(headers, "Authorization") = <<"Bearer tok">>
    /\ last.result[1].redirect = "follow"

\* C21: makeRequestInit changes nothing: the step leaves the header
\* collection and the base URL as they were, and a second call with the same
\* arguments, made in the state the first one left, returns an equal result.
C21_MakeRequestInitPure ==
    /\ [][last'.kind = "makeRequestInit"
          => /\ headers' = headers
             /\ baseUrl' = baseUrl]_vars
    /\ [](last.kind = "makeRequestInit"
          => LET again == makeRequestInit(headers, last.method, last.body, last.request)
             IN  /\ again.threw = (last.result = <<>>)
                 /\ ~again.threw => last.result = <<again.value>>)

C21_Witness ==
    /\ last.kind = "makeRequestInit" /\ last.body = PlainObject
    /\ last.result # <<>>
    /\ baseUrl = "https://example.com"
    /\ HeadersGet(headers, "Authorization") = <<"Bearer tok">>
    /\ headers = last.pre

\* C22: each plain shorthand is delegation to request: a step of get or
\* delete is a step of request with the same url and options, the
\* method GET or DELETE and no body, and a step of post, patch or put is
\* a step of request with the same url, body and options and the method
\* POST, PATCH or PUT; the promise it returns is that request's.
C22_ShorthandsDelegateToRequest ==
    [][\A u \in ShorthandUrls, r \in ShorthandOptions :
          /\ Get(u, r) => Request(u, "GET", Undefined, r)
          /\ Delete(u, r) => Request(u, "DELETE", Undefined, r)
          /\ \A b \in Bodies :
                /\ Post(u, b, r) => Request(u, "POST", b, r)
                /\ Patch(u, b, r) => Request(u, "PATCH", b, r)
                /\ Put(u, b, r) => Request(u, "PUT", b, r)]_vars

C22_Witness ==
    /\ last.kind = "request" /\ last.args.method = "DELETE"
    /\ last.args.url = "https://example.com"
    /\ last.args.request = [mode |-> "cors"]
    /\ last.body = Undefined /\ last.init # <<>>
    /\ BagCardinality(calls) = 2

C24_JsonDelegatesAndParses ==
    /\ (last.kind = "json" /\ last.thrown = <<>>)
       => /\ Len(last.init) = 1
          /\ last.target = <<urlTo(baseUrl, last.args.url)>>
          /\ last.init[1] = makeRequestInit(JsonSetHeaders(last.pre, last.body),
                                            last.args.method, last.body,
                                            last.args.request).value
    /\ \A c \in Calls :
          (c.kind = "json" /\ c.out # <<>>)
          => IF c.req[1].state = "fulfilled"
             THEN c.out[1] = Fulfilled(ParsedJson(c.req[1].value))
             ELSE c.out[1] = c.req[1]

\* C25: the error fromResponse built from a response r has response r and no
\* parent, the error fromError built from an error e has parent e and no
\* response, and isHttpError holds of both.
C25_FactoriesSetOnePayload ==
    \A c \in Calls :
        /\ (c.afterThen # <<>> /\ Resolved(c) /\ c.afterThen[1].state = "rejected")
           => LET e == c.afterThen[1].value IN
              /\ e.response = <<c.fetched[1].value>>
              /\ e.parent = <<>>
              /\ isHttpError(e)
        /\ (c.req # <<>> /\ c.req[1] # c.afterThen[1] /\ c.afterThen[1].value # NullValue)
           => LET e == c.req[1].value IN
              /\ e.parent = <<c.afterThen[1].value>>
              /\ e.response = <<>>
              /\ isHttpError(e)

C25_Witness ==
    \E c \in Calls, d \in Calls :
        /\ c.req # <<>> /\ c.fetched[1] = Rejected(NetworkError)
        /\ c.req[1].value.parent = <<NetworkError>>
        /\ d.afterThen # <<>> /\ d.fetched[1] = Fulfilled(Response(199, TRUE))
        /\ d.afterThen[1].value.response = <<Response(199, TRUE)>>

\* C26: isHttpError holds of an error exactly when its name is 'HttpError':
\* of every error this client built, of no error with another name, and of
\* an error with that name that this client did not build; the catch
\* boundary lets through exactly the errors with that name.
C26_IsHttpErrorByNameTag ==
    \A c \in Calls :
        /\ (c.req # <<>> /\ c.afterThen[1].state = "rejected"
               /\ c.afterThen[1].value # NullValue)
           => LET e == c.afterThen[1].value IN
              /\ isHttpError(e) <=> e.name = "HttpError"
              /\ c.req[1] = c.afterThen[1] <=> e.name = "HttpError"
        /\ (c.req # <<>> /\ c.req[1].state = "rejected"
               /\ (c.req[1].value.parent # <<>> \/ c.req[1].value.response # <<>>))
           => isHttpError(c.req[1].value)

C26_Witness ==
    \E c \in Calls, d \in Calls :
        /\ c.req # <<>> /\ c.afterThen[1] = Rejected(ForeignHttpError)
        /\ c.req[1] = Rejected(ForeignHttpError)
        /\ d.req # <<>> /\ d.afterThen[1] = Rejected(NetworkError)
        /\ d.req[1] # d.afterThen[1]

\* C27: no step of request changes the client: neither the call itself nor
\* a settlement callback of any call in flight, in whatever order they run,
\* changes the header collection or the base URL.
C27_RequestLeavesInstance ==
    [][\/ headers' = headers /\ baseUrl' = baseUrl
       \/ ~(last'.kind = "request" \/ (last' = NoCall /\ calls' # calls))]_vars

C27_Witness ==
    \E c \in Calls, d \in Calls :
        /\ c.kind = "request" /\ c.pc = "done" /\ c.out[1].state = "rejected"
        /\ d.kind = "json" /\ d.pc = "then"
        /\ HeadersGet(headers, "Accept") = <<"text/html">>

\* C28: a json call leaves the base URL and every header but Accept and
\* Content-Type alone: they are the same before the call, in what the
\* transport is given, and after the call.
C28_JsonTouchesOnlyItsHeaders ==
    [][last'.kind = "json"
       => /\ baseUrl' = baseUrl
          /\ last'.init # <<>> => last'.target = <<urlTo(baseUrl, last'.args.url)>>
          /\ \A k \in HeaderKeys \ {LowerCase("Accept"), LowerCase("Content-Type")} :
                /\ headers'[k] = headers[k]
                /\ last'.init # <<>> => last'.init[1].headers[k] = headers[k]]_vars

C28_Witness ==
    /\ last.kind = "json" /\ last.init # <<>>
    /\ baseUrl = "https://example.com"
    /\ last.target = <<"https://example.com/test">>
    /\ HeadersGet(last.pre, "Authorization") = <<"Bearer tok">>
    /\ HeadersGet(last.init[1].headers, "Authorization") = <<"Bearer tok">>
    /\ HeadersGet(headers, "Authorization") = <<"Bearer tok">>

\* C29: every error the promise request returned is rejected with carries
\* exactly one payload: a response and no parent, or a parent and no
\* response.
C29_ExactlyOnePayload ==
    \A c \in Calls :
        (RequestSettled(c) /\ c.req[1].state = "rejected")
        => (c.req[1].value.response # <<>>) # (c.req[1].value.parent # <<>>)

====
